---- MODULE Spec2Model ----
(***************************************************************************)
(* The testnet monitor (src/testnet/monitor.py): the monitor loop, the     *)
(* log-parsing pass over the log directory, and the classifiers it uses.   *)
(*                                                                         *)
(* File names and node identities are sequences of one-character strings,  *)
(* so that substring tests, suffix tests and split("-") are computed.      *)
(* A log line is a record [ts, body]: ts is the optional bracketed prefix  *)
(* and body a sequence of tokens; the literal pieces of the five regular   *)
(* expressions are tokens, and a capture group is a sequence of tokens.    *)
(* An optional value is <<>> (None) or <<v>>.                              *)
(***************************************************************************)
EXTENDS Integers, Sequences, FiniteSets, TLC

VARIABLES
    logs,         \* the log directory: file name -> sequence of lines
    mtime,        \* file name -> modification time of the file
    now,          \* the wall clock, time.time(), in seconds
    nodes,        \* the dict nodes, as the sequence of Node records in insertion order
    connections,  \* the dict connections: <<source, dest>> -> Connection record
    messages,     \* the list messages
    pc,           \* where monitor_loop is
    todo,         \* the part of os.listdir(LOG_DIR) the for loop has not reached yet
    pos,          \* number of lines already read from the file that is open
    passes,       \* completed iterations of the while loop
    appended,     \* lines the node processes wrote since the monitor started
    log_dir,      \* os.path.exists(LOG_DIR): whether the log directory exists
    simulator,    \* the TestnetSimulator: its dicts nodes and federations
    starting      \* the call of TestnetNode.start in progress, with its local wait_time

vars == <<logs, mtime, now, nodes, connections, messages, pc, todo, pos, passes, appended,
          log_dir, simulator, starting>>

----------------------------------------------------------------------------
(* Bounds of the model *)

MaxLines == 3
MaxAppends == 1
MaxPasses == 2
MaxHistoryPasses == 27
MaxParts == 4

(* Program constants *)

REFRESH_INTERVAL == 2
BASE_PORT == 9000
MaxMessages == 100
InactiveAfter == 10
OfflineAfter == 30

----------------------------------------------------------------------------
(* Optional values and generic sequence helpers *)

None == <<>>
Some(v) == <<v>>

IsAt(s, p, i) ==
    /\ i >= 1
    /\ i + Len(p) - 1 <= Len(s)
    /\ \A k \in 1..Len(p) : s[i + k - 1] = p[k]

\* Python's `p in s` on strings
Contains(s, p) == \E i \in 1..(Len(s) + 1) : IsAt(s, p, i)

\* Python's s.endswith(p)
EndsWith(s, p) == IsAt(s, p, Len(s) - Len(p) + 1)

Indices(s, c) == {i \in 1..Len(s) : s[i] = c}

Max(S) == CHOOSE x \in S : \A y \in S : y <= x
Min(S) == CHOOSE x \in S : \A y \in S : x <= y

\* Python's s.split(c) for a one-character separator
RECURSIVE Split(_, _)
Split(s, c) ==
    IF Indices(s, c) = {} THEN <<s>>
    ELSE LET i == Min(Indices(s, c))
         IN  <<SubSeq(s, 1, i - 1)>> \o Split(SubSeq(s, i + 1, Len(s)), c)

Perms(S) == {p \in [1..Cardinality(S) -> S] : \A i, j \in 1..Cardinality(S) : p[i] = p[j] => i = j}

SeqsUpTo(S, n) == UNION {[1..k -> S] : k \in 0..n}

----------------------------------------------------------------------------
(* Strings of the program, spelled as character sequences *)

s_federation == <<"f","e","d","e","r","a","t","i","o","n">>
s_cross == <<"c","r","o","s","s">>
s_bridge == <<"b","r","i","d","g","e">>
s_node == <<"n","o","d","e">>
s_dash == <<"-">>
s_federation_a == s_federation \o s_dash \o <<"a">>
s_federation_b == s_federation \o s_dash \o <<"b">>
s_federation_c == s_federation \o s_dash \o <<"c">>
s_cross_federation == s_cross \o s_dash \o s_federation
s_ab == <<"a","b">>
s_bc == <<"b","c">>
s_ac == <<"a","c">>
s_log == <<".","l","o","g">>
s_txt == <<".","t","x","t">>

----------------------------------------------------------------------------
(* monitor.py: file name and federation classifiers *)

\* os.path.splitext(base)[0]: the name up to its last dot, unless that dot
\* only follows leading dots
parse_node_id_from_filename(filename) ==
    LET dots == Indices(filename, ".")
        last == Max(dots)
    IN  IF dots = {} THEN filename
        ELSE IF \A k \in 1..(last - 1) : filename[k] = "." THEN filename
        ELSE SubSeq(filename, 1, last - 1)

parse_federation_from_node_id(node_id) ==
    IF Contains(node_id, s_federation_a) THEN Some("federation-a")
    ELSE IF Contains(node_id, s_federation_b) THEN Some("federation-b")
    ELSE IF Contains(node_id, s_federation_c) THEN Some("federation-c")
    ELSE IF Contains(node_id, s_cross_federation) THEN
        LET parts == Split(node_id, "-")
        IN  IF Len(parts) >= 3 THEN
                IF parts[Len(parts)] = s_ab THEN Some("federation-a+federation-b")
                ELSE IF parts[Len(parts)] = s_bc THEN Some("federation-b+federation-c")
                ELSE IF parts[Len(parts)] = s_ac THEN Some("federation-a+federation-c")
                ELSE None
            ELSE None
    ELSE None

----------------------------------------------------------------------------
(* monitor.py: the regular expressions, over token sequences *)

t_init == "Node initialized with overlay address"
t_colon == ": "
t_connected == "Connected"
t_to == " to "
t_peer == "peer"
t_created == "Created tunnel"
t_using == " using "
t_sending == "Sending "
t_received == "Received message from "

Rest(body, i) == SubSeq(body, i, Len(body))

\* r"Node initialized with overlay address: (.*)": search takes the leftmost
\* start; the result is None or Some(<<group 1>>)
NODE_INITIALIZED_RE(body) ==
    LET starts == {i \in 1..Len(body) : IsAt(body, <<t_init, t_colon>>, i)}
    IN  IF starts = {} THEN None
        ELSE Some(<<Rest(body, Min(starts) + 2)>>)

\* r"Connected to peer: (.*)"
PEER_CONNECTED_RE(body) ==
    LET starts == {i \in 1..Len(body) : IsAt(body, <<t_connected, t_to, t_peer, t_colon>>, i)}
    IN  IF starts = {} THEN None
        ELSE Some(<<Rest(body, Min(starts) + 4)>>)

\* r"Created tunnel to (.*) using (.*)": group 1 is greedy, so it runs to the
\* last " using "
TUNNEL_CREATED_RE(body) ==
    LET usings(i) == {j \in Indices(body, t_using) : j >= i + 2}
        starts == {i \in 1..Len(body) : IsAt(body, <<t_created, t_to>>, i) /\ usings(i) # {}}
    IN  IF starts = {} THEN None
        ELSE LET i == Min(starts)
                 j == Max(usings(i))
             IN  Some(<<SubSeq(body, i + 2, j - 1), Rest(body, j + 1)>>)

\* r"Sending .* to (.*): (.*)": the leading .* is greedy, so " to " is the last
\* one that still has a ": " after it, and group 1 runs to the last ": "
MESSAGE_SENT_RE(body) ==
    LET colons(j) == {k \in Indices(body, t_colon) : k > j}
        tos(i) == {j \in Indices(body, t_to) : j > i /\ colons(j) # {}}
        starts == {i \in Indices(body, t_sending) : tos(i) # {}}
    IN  IF starts = {} THEN None
        ELSE LET i == Min(starts)
                 j == Max(tos(i))
                 k == Max(colons(j))
             IN  Some(<<SubSeq(body, j + 1, k - 1), Rest(body, k + 1)>>)

\* r"Received message from (.*): (.*)"
MESSAGE_RECEIVED_RE(body) ==
    LET colons(i) == {k \in Indices(body, t_colon) : k > i}
        starts == {i \in Indices(body, t_received) : colons(i) # {}}
    IN  IF starts = {} THEN None
        ELSE LET i == Min(starts)
                 k == Max(colons(i))
             IN  Some(<<SubSeq(body, i + 1, k - 1), Rest(body, k + 1)>>)

\* datetime.strptime(word, "%Y-%m-%d") succeeds on these words
DateWords == {"2024-01-01", "2024-01-02"}

\* a variant of ExtractTimestamp that takes any first word for the timestamp
ExtractTimestamp_AnyWord(line) ==
    IF line.ts = None THEN None
    ELSE IF line.ts[1] = <<>> THEN None
    ELSE Some(line.ts[1][1])

\* lines 124-131: ts is None (no bracketed prefix) or Some(words of the
\* bracket's content); the first word is parsed as a date, and IndexError (no
\* word) and ValueError (not a date) leave the timestamp None
ExtractTimestamp(line) ==
    IF line.ts = None THEN None
    ELSE LET words == line.ts[1]
         IN  IF words = <<>> THEN None
             ELSE IF words[1] \in DateWords THEN Some(words[1])
             ELSE None

----------------------------------------------------------------------------
(* monitor.py: the data classes *)

Node(node_id, federation) ==
    [node_id |-> node_id, federation |-> federation, address |-> None,
     peers |-> {}, tunnels |-> {}, messages_sent |-> 0, messages_received |-> 0,
     last_seen |-> 0, status |-> "unknown"]

\* a variant of Connection that stores the two ends the other way round
Connection_Swapped(source, dest) ==
    [source |-> dest, dest |-> source, tunnel_type |-> None, messages |-> 0,
     last_message |-> 0]

Connection(source, dest) ==
    [source |-> source, dest |-> dest, tunnel_type |-> None, messages |-> 0,
     last_message |-> 0]

Message(source, dest, content, timestamp) ==
    [source |-> source, dest |-> dest, content |-> content, timestamp |-> timestamp]

\* a variant of update_status that never reports offline
update_status_no_offline(node, t) ==
    IF t - node.last_seen > InactiveAfter THEN [node EXCEPT !.status = "inactive"]
    ELSE [node EXCEPT !.status = "active"]

\* a variant of update_status whose thresholds are inclusive
update_status_inclusive(node, t) ==
    IF t - node.last_seen >= OfflineAfter THEN [node EXCEPT !.status = "offline"]
    ELSE IF t - node.last_seen >= InactiveAfter THEN [node EXCEPT !.status = "inactive"]
    ELSE [node EXCEPT !.status = "active"]

\* Node.update_status with t = time.time()
update_status(node, t) ==
    IF t - node.last_seen > OfflineAfter THEN [node EXCEPT !.status = "offline"]
    ELSE IF t - node.last_seen > InactiveAfter THEN [node EXCEPT !.status = "inactive"]
    ELSE [node EXCEPT !.status = "active"]

NodeIds(ns) == {ns[i].node_id : i \in 1..Len(ns)}
NodeIndex(ns, id) == CHOOSE i \in 1..Len(ns) : ns[i].node_id = id
NodeOf(ns, id) == ns[NodeIndex(ns, id)]

\* the identities the loop `for other_id, other_node in nodes.items()` selects
\* with `other_node.address == addr`, in dict order
RECURSIVE Owners(_, _)
Owners(ns, addr) ==
    IF ns = <<>> THEN <<>>
    ELSE (IF Head(ns).address = Some(addr) THEN <<Head(ns).node_id>> ELSE <<>>)
         \o Owners(Tail(ns), addr)

Range(s) == {s[i] : i \in 1..Len(s)}

----------------------------------------------------------------------------
(* monitor.py parse_logs, lines 133-200: what one line does to the store.  *)
(* st is the store [nodes, connections, messages]; node_id is the identity *)
(* of the file the line was read from.                                     *)

\* a variant of OnNodeInitialized that starts the node record afresh
OnNodeInitialized_Resets(st, node_id, address) ==
    LET i == NodeIndex(st.nodes, node_id)
    IN  [st EXCEPT !.nodes[i] = [Node(node_id, st.nodes[i].federation) EXCEPT
                                    !.address = Some(address),
                                    !.last_seen = st.nodes[i].last_seen]]

\* lines 134-137
OnNodeInitialized(st, node_id, address) ==
    [st EXCEPT !.nodes[NodeIndex(st.nodes, node_id)].address = Some(address)]

\* a variant of OnPeerConnected that stores a fresh record on every observation
OnPeerConnected_Resets(st, node_id, peer_addr) ==
    LET i == NodeIndex(st.nodes, node_id)
        keys == {<<node_id, o>> : o \in Range(Owners(st.nodes, peer_addr))}
    IN  [st EXCEPT
            !.nodes[i].peers = @ \cup {peer_addr},
            !.connections = [k \in DOMAIN st.connections \cup keys |->
                                IF k \in keys THEN Connection(k[1], k[2])
                                ELSE st.connections[k]]]

\* lines 140-151
OnPeerConnected(st, node_id, peer_addr) ==
    LET i == NodeIndex(st.nodes, node_id)
        keys == {<<node_id, o>> : o \in Range(Owners(st.nodes, peer_addr))}
    IN  [st EXCEPT
            !.nodes[i].peers = @ \cup {peer_addr},
            !.connections = [k \in DOMAIN st.connections \cup keys |->
                                IF k \in DOMAIN st.connections THEN st.connections[k]
                                ELSE Connection(k[1], k[2])]]

\* a variant of OnTunnelCreated that replaces the record by a fresh one
OnTunnelCreated_Replaces(st, node_id, tunnel_dest, tunnel_type) ==
    LET i == NodeIndex(st.nodes, node_id)
        keys == {<<node_id, o>> : o \in Range(Owners(st.nodes, tunnel_dest))}
    IN  [st EXCEPT
            !.nodes[i].tunnels = @ \cup {tunnel_dest},
            !.connections = [k \in DOMAIN st.connections \cup keys |->
                                IF k \notin keys THEN st.connections[k]
                                ELSE [Connection(k[1], k[2]) EXCEPT !.tunnel_type = Some(tunnel_type)]]]

\* lines 154-170
OnTunnelCreated(st, node_id, tunnel_dest, tunnel_type) ==
    LET i == NodeIndex(st.nodes, node_id)
        keys == {<<node_id, o>> : o \in Range(Owners(st.nodes, tunnel_dest))}
    IN  [st EXCEPT
            !.nodes[i].tunnels = @ \cup {tunnel_dest},
            !.connections = [k \in DOMAIN st.connections \cup keys |->
                                IF k \notin keys THEN st.connections[k]
                                ELSE IF k \in DOMAIN st.connections
                                     THEN [st.connections[k] EXCEPT !.tunnel_type = Some(tunnel_type)]
                                ELSE [Connection(k[1], k[2]) EXCEPT !.tunnel_type = Some(tunnel_type)]]]

\* a variant of AppendMessage that compares with >= instead of >
AppendMessage_OffByOne(msgs, msg) ==
    LET longer == Append(msgs, msg)
    IN  IF Len(longer) >= MaxMessages THEN Tail(longer) ELSE longer

\* lines 189-191: append, then drop the oldest when over the limit
AppendMessage(msgs, msg) ==
    LET longer == Append(msgs, msg)
    IN  IF Len(longer) > MaxMessages THEN Tail(longer) ELSE longer

RECURSIVE AppendMessages(_, _)
AppendMessages(msgs, new) ==
    IF new = <<>> THEN msgs
    ELSE AppendMessages(AppendMessage(msgs, Head(new)), Tail(new))

\* line 188: `timestamp or time.time()`; a datetime is never falsy
MessageTime(timestamp, t) ==
    IF timestamp # None THEN [kind |-> "datetime", value |-> timestamp[1]]
    ELSE [kind |-> "time", value |-> t]

\* a variant of OnMessageSent that counts a line twice on its connections
OnMessageSent_CountsTwice(st, node_id, dest_addr, message_content, timestamp, t) ==
    LET i == NodeIndex(st.nodes, node_id)
        owners == Owners(st.nodes, dest_addr)
        keys == {<<node_id, o>> : o \in Range(owners)}
    IN  [st EXCEPT
            !.nodes[i].messages_sent = @ + 1,
            !.connections = [k \in DOMAIN st.connections |->
                                IF k \in keys
                                THEN [st.connections[k] EXCEPT !.messages = @ + 2,
                                                               !.last_message = t]
                                ELSE st.connections[k]],
            !.messages = AppendMessages(@,
                            [j \in 1..Len(owners) |->
                                Message(node_id, owners[j], message_content,
                                        MessageTime(timestamp, t))])]

\* lines 173-192
OnMessageSent(st, node_id, dest_addr, message_content, timestamp, t) ==
    LET i == NodeIndex(st.nodes, node_id)
        owners == Owners(st.nodes, dest_addr)
        keys == {<<node_id, o>> : o \in Range(owners)}
    IN  [st EXCEPT
            !.nodes[i].messages_sent = @ + 1,
            !.connections = [k \in DOMAIN st.connections |->
                                IF k \in keys
                                THEN [st.connections[k] EXCEPT !.messages = @ + 1,
                                                               !.last_message = t]
                                ELSE st.connections[k]],
            !.messages = AppendMessages(@,
                            [j \in 1..Len(owners) |->
                                Message(node_id, owners[j], message_content,
                                        MessageTime(timestamp, t))])]

\* a variant of OnMessageReceived that also records the sender as a peer
OnMessageReceived_AddsPeer(st, node_id, source_addr, message_content) ==
    [st EXCEPT !.nodes[NodeIndex(st.nodes, node_id)].messages_received = @ + 1,
               !.nodes[NodeIndex(st.nodes, node_id)].peers = @ \cup {source_addr}]

\* lines 195-200
OnMessageReceived(st, node_id, source_addr, message_content) ==
    [st EXCEPT !.nodes[NodeIndex(st.nodes, node_id)].messages_received = @ + 1]

\* a variant of LineKind that takes the last expression that matches
LineKind_LastMatch(line) ==
    IF MESSAGE_RECEIVED_RE(line.body) # None THEN "received"
    ELSE IF MESSAGE_SENT_RE(line.body) # None THEN "sent"
    ELSE IF TUNNEL_CREATED_RE(line.body) # None THEN "tunnel"
    ELSE IF PEER_CONNECTED_RE(line.body) # None THEN "peer"
    ELSE IF NODE_INITIALIZED_RE(line.body) # None THEN "init"
    ELSE "none"

\* the kind of event a line is taken for: the first expression that matches
LineKind(line) ==
    IF NODE_INITIALIZED_RE(line.body) # None THEN "init"
    ELSE IF PEER_CONNECTED_RE(line.body) # None THEN "peer"
    ELSE IF TUNNEL_CREATED_RE(line.body) # None THEN "tunnel"
    ELSE IF MESSAGE_SENT_RE(line.body) # None THEN "sent"
    ELSE IF MESSAGE_RECEIVED_RE(line.body) # None THEN "received"
    ELSE "none"

\* lines 123-200: the body of `for line in f`
ApplyLine(st, node_id, line, t) ==
    LET timestamp == ExtractTimestamp(line)
        kind == LineKind(line)
    IN  CASE kind = "init" ->
                OnNodeInitialized(st, node_id, NODE_INITIALIZED_RE(line.body)[1][1])
          [] kind = "peer" ->
                OnPeerConnected(st, node_id, PEER_CONNECTED_RE(line.body)[1][1])
          [] kind = "tunnel" ->
                OnTunnelCreated(st, node_id, TUNNEL_CREATED_RE(line.body)[1][1],
                                TUNNEL_CREATED_RE(line.body)[1][2])
          [] kind = "sent" ->
                OnMessageSent(st, node_id, MESSAGE_SENT_RE(line.body)[1][1],
                              MESSAGE_SENT_RE(line.body)[1][2], timestamp, t)
          [] kind = "received" ->
                OnMessageReceived(st, node_id, MESSAGE_RECEIVED_RE(line.body)[1][1],
                                  MESSAGE_RECEIVED_RE(line.body)[1][2])
          [] OTHER -> st

Store == [nodes |-> nodes, connections |-> connections, messages |-> messages]

----------------------------------------------------------------------------
(* The log directory and the lines the node processes write *)

LogLine(ts, body) == [ts |-> ts, body |-> body]

addr_A == <<"addr-A">>
addr_B == <<"addr-B">>

l_init_A == LogLine(None, <<t_init, t_colon>> \o addr_A)
l_init_B == LogLine(None, <<t_init, t_colon>> \o addr_B)
l_peer_B == LogLine(None, <<t_connected, t_to, t_peer, t_colon>> \o addr_B)
l_tunnel_B == LogLine(None, <<t_created, t_to>> \o addr_B \o <<t_using, "direct">>)
l_sent_B == LogLine(None, <<t_sending, "msg", t_to>> \o addr_B \o <<t_colon, "hello">>)
l_received_A == LogLine(None, <<t_received>> \o addr_A \o <<t_colon, "hello">>)
l_other == LogLine(Some(<<"12:00:00">>), <<"Starting node">>)

LineSet == {l_init_A, l_init_B, l_peer_B, l_tunnel_B, l_sent_B, l_received_A, l_other}

f_A == <<"A">> \o s_log
f_B == <<"B">> \o s_log
LogNames == {f_A, f_B}

TotalLines(dir) ==
    LET RECURSIVE Sum(_)
        Sum(D) == IF D = {} THEN 0
                  ELSE LET f == CHOOSE f \in D : TRUE IN Len(dir[f]) + Sum(D \ {f})
    IN  Sum(DOMAIN dir)

\* the directories over `names` that hold at most n lines altogether
Directories(names, lines, n) ==
    UNION {{dir \in [D -> SeqsUpTo(lines, n)] : TotalLines(dir) <= n} : D \in SUBSET names}

EmptyMap == [k \in {} |-> 0]

----------------------------------------------------------------------------
(* monitor_loop and parse_logs, step by step *)

Running == pc \notin {"done", "crashed"}

\* line 104: os.listdir(LOG_DIR) returns the names in arbitrary order
ListDir(limit) ==
    /\ pc = "start"
    /\ passes < limit
    /\ todo' \in Perms(DOMAIN logs)
    /\ pc' = "scan"
    /\ UNCHANGED <<logs, mtime, now, nodes, connections, messages, pos, passes, appended, log_dir, simulator, starting>>

\* a variant of NextFile that takes last_seen from the clock
NextFile_Touch ==
    /\ pc = "scan"
    /\ todo # <<>>
    /\ LET filename == Head(todo)
           node_id == parse_node_id_from_filename(filename)
           federation == parse_federation_from_node_id(node_id)
           created == IF node_id \in NodeIds(nodes) THEN nodes
                      ELSE Append(nodes, Node(node_id, federation))
           seen == IF filename \in DOMAIN logs
                   THEN [created EXCEPT ![NodeIndex(created, node_id)].last_seen = now]
                   ELSE created
       IN  IF ~EndsWith(filename, s_log)
           THEN /\ todo' = Tail(todo)
                /\ UNCHANGED <<nodes, pc, pos>>
           ELSE /\ nodes' = seen
                /\ pos' = 0
                /\ pc' = IF filename \in DOMAIN logs THEN "read" ELSE "crashed"
                /\ UNCHANGED todo
    /\ UNCHANGED <<logs, mtime, now, connections, messages, passes, appended, log_dir, simulator, starting>>

\* lines 105-121: the head of the loop body for the next listed name
NextFile ==
    /\ pc = "scan"
    /\ todo # <<>>
    /\ LET filename == Head(todo)
           node_id == parse_node_id_from_filename(filename)
           federation == parse_federation_from_node_id(node_id)
           created == IF node_id \in NodeIds(nodes) THEN nodes
                      ELSE Append(nodes, Node(node_id, federation))
           seen == IF filename \in DOMAIN logs
                   THEN [created EXCEPT ![NodeIndex(created, node_id)].last_seen = mtime[filename]]
                   ELSE created
       IN  IF ~EndsWith(filename, s_log)
           THEN /\ todo' = Tail(todo)
                /\ UNCHANGED <<nodes, pc, pos>>
           ELSE /\ nodes' = seen
                /\ pos' = 0
                /\ pc' = IF filename \in DOMAIN logs THEN "read" ELSE "crashed"
                /\ UNCHANGED todo
    /\ UNCHANGED <<logs, mtime, now, connections, messages, passes, appended, log_dir, simulator, starting>>

\* a variant of ReadLine that takes the lines of the file from the last to the first
ReadLine_Backwards ==
    /\ pc = "read"
    /\ pos < Len(logs[Head(todo)])
    /\ LET st == ApplyLine(Store, parse_node_id_from_filename(Head(todo)),
                           logs[Head(todo)][Len(logs[Head(todo)]) - pos], now)
       IN  /\ nodes' = st.nodes
           /\ connections' = st.connections
           /\ messages' = st.messages
    /\ pos' = pos + 1
    /\ UNCHANGED <<logs, mtime, now, pc, todo, passes, appended, log_dir, simulator, starting>>

\* lines 122-200: one iteration of `for line in f`
ReadLine ==
    /\ pc = "read"
    /\ pos < Len(logs[Head(todo)])
    /\ LET st == ApplyLine(Store, parse_node_id_from_filename(Head(todo)),
                           logs[Head(todo)][pos + 1], now)
       IN  /\ nodes' = st.nodes
           /\ connections' = st.connections
           /\ messages' = st.messages
    /\ pos' = pos + 1
    /\ UNCHANGED <<logs, mtime, now, pc, todo, passes, appended, log_dir, simulator, starting>>

\* line 122: end of file reached, the with block closes the file
CloseFile ==
    /\ pc = "read"
    /\ pos >= Len(logs[Head(todo)])
    /\ pc' = "scan"
    /\ todo' = Tail(todo)
    /\ pos' = 0
    /\ UNCHANGED <<logs, mtime, now, nodes, connections, messages, passes, appended, log_dir, simulator, starting>>

\* a variant of UpdateStatuses that does not wait for the end of the listing
UpdateStatuses_Early ==
    /\ pc = "scan"
    /\ nodes' = [i \in 1..Len(nodes) |-> update_status(nodes[i], now)]
    /\ pc' = "draw"
    /\ UNCHANGED <<logs, mtime, now, connections, messages, todo, pos, passes, appended, log_dir, simulator, starting>>

\* lines 202-204
UpdateStatuses ==
    /\ pc = "scan"
    /\ todo = <<>>
    /\ nodes' = [i \in 1..Len(nodes) |-> update_status(nodes[i], now)]
    /\ pc' = "draw"
    /\ UNCHANGED <<logs, mtime, now, connections, messages, todo, pos, passes, appended, log_dir, simulator, starting>>

\* lines 232-258 of draw_network_status: the node rows that fit the screen
\* are drawn; `"federation-a+" in node.federation` raises TypeError for a
\* drawn node whose federation is None
Draw ==
    /\ pc = "draw"
    /\ \E drawn \in SUBSET NodeIds(nodes) :
          pc' = IF \E id \in drawn : NodeOf(nodes, id).federation = None
                THEN "crashed" ELSE "sleep"
    /\ UNCHANGED <<logs, mtime, now, nodes, connections, messages, todo, pos, passes, appended, log_dir, simulator, starting>>

\* lines 318-320: the quit key
Quit ==
    /\ pc = "sleep"
    /\ pc' = "done"
    /\ UNCHANGED <<logs, mtime, now, nodes, connections, messages, todo, pos, passes, appended, log_dir, simulator, starting>>

\* line 322
Sleep ==
    /\ pc = "sleep"
    /\ now' = now + REFRESH_INTERVAL
    /\ passes' = passes + 1
    /\ pc' = "start"
    /\ UNCHANGED <<logs, mtime, nodes, connections, messages, todo, pos, appended, log_dir, simulator, starting>>

----------------------------------------------------------------------------
(* The environment: node processes append to their logs *)

AppendLine(f, line) ==
    /\ Running
    /\ appended < MaxAppends
    /\ TotalLines(logs) < MaxLines
    /\ logs' = [g \in DOMAIN logs \cup {f} |->
                   IF g = f THEN (IF f \in DOMAIN logs THEN Append(logs[f], line) ELSE <<line>>)
                   ELSE logs[g]]
    /\ mtime' = [g \in DOMAIN logs \cup {f} |-> IF g = f THEN now ELSE mtime[g]]
    /\ appended' = appended + 1
    /\ UNCHANGED <<now, nodes, connections, messages, pc, todo, pos, passes, log_dir, simulator, starting>>

----------------------------------------------------------------------------
(* simulate_scenarios.py: the objects of the scenario simulator *)

\* TestnetNode.__init__; port is BASE_PORT + random.randint(1000, 9999) when not given
TestnetNode(node_id, federation, port) ==
    [node_id |-> node_id, federation |-> federation, port |-> port,
     address |-> None, process |-> None, log_file |-> None]

\* TestnetSimulator.__init__
EmptySimulator == [nodes |-> EmptyMap, federations |-> EmptyMap]

\* no call of TestnetNode.start has been made
NotStarting == [pc |-> "idle", node_id |-> None, wait_time |-> 0, result |-> None]

----------------------------------------------------------------------------
(* Specifications *)

InitMonitor ==
    /\ nodes = <<>>
    /\ connections = EmptyMap
    /\ messages = <<>>
    /\ pc = "start"
    /\ todo = <<>>
    /\ pos = 0
    /\ passes = 0
    /\ appended = 0
    /\ log_dir = TRUE
    /\ simulator = EmptySimulator
    /\ starting = NotStarting

\* the monitor starts on a log directory the nodes have already written to
Init ==
    /\ logs \in Directories(LogNames, LineSet, MaxLines)
    /\ mtime = [f \in DOMAIN logs |-> 0]
    /\ now = 0
    /\ InitMonitor

Next ==
    \/ ListDir(MaxPasses)
    \/ NextFile
    \/ ReadLine
    \/ CloseFile
    \/ UpdateStatuses
    \/ Draw
    \/ Quit
    \/ Sleep
    \/ \E f \in LogNames, line \in LineSet : AppendLine(f, line)

Spec == Init /\ [][Next]_vars

----------------------------------------------------------------------------
(* The federation classifier over many identities: the monitor is started  *)
(* on a directory holding one empty file whose name is built from the      *)
(* words of the naming convention.                                         *)

FedWords == {s_federation, s_cross, s_bridge, s_node, <<"a">>, <<"b">>, <<"c">>,
             s_ab, s_bc, s_ac, <<"x","y">>}

RECURSIVE JoinDash(_)
JoinDash(ws) ==
    IF Len(ws) = 1 THEN ws[1] ELSE ws[1] \o s_dash \o JoinDash(Tail(ws))

\* the identities of at most n words
FedIds(n) == {JoinDash(ws) : ws \in SeqsUpTo(FedWords, n) \ {<<>>}}

FedFiles(n) == {id \o ext : id \in FedIds(n), ext \in {s_log, s_txt}}

InitFed ==
    /\ \E f \in FedFiles(MaxParts) : logs = [g \in {f} |-> <<>>]
    /\ mtime = [f \in DOMAIN logs |-> 0]
    /\ now = 0
    /\ InitMonitor

NextFed ==
    \/ ListDir(1)
    \/ NextFile
    \/ CloseFile
    \/ UpdateStatuses
    \/ Draw
    \/ Quit
    \/ Sleep

SpecFed == InitFed /\ [][NextFed]_vars

----------------------------------------------------------------------------
(* A long observation of a quiet directory: two nodes that advertise the   *)
(* same address, one of them with two message-sent lines, watched for many *)
(* passes while nothing is written.                                        *)

f_fa == s_federation_a \o s_log
f_fb == s_federation_b \o s_log

HistoryDir ==
    [f \in {f_fa, f_fb} |->
        IF f = f_fa THEN <<l_init_B, l_sent_B, l_sent_B>> ELSE <<l_init_B, l_received_A>>]

InitHistory ==
    /\ logs = HistoryDir
    /\ mtime = [f \in DOMAIN logs |-> IF f = f_fa THEN 0 ELSE 20]
    /\ now \in {20, 21}
    /\ InitMonitor

NextHistory ==
    \/ ListDir(MaxHistoryPasses)
    \/ NextFile
    \/ ReadLine
    \/ CloseFile
    \/ UpdateStatuses
    \/ Draw
    \/ Quit
    \/ Sleep

SpecHistory == InitHistory /\ [][NextHistory]_vars

----------------------------------------------------------------------------
(* Logs that go stale or vanish: the node processes write during the first *)
(* passes and then stop, the simulator may delete log files at any moment, *)
(* and the monitor keeps running.                                          *)

MaxWritePasses == 2
MaxStalePasses == 18

\* simulate_scenarios.py clean_logs: one os.remove of its loop.  A file the
\* monitor holds open stays readable through the open descriptor, which reads
\* what a removal just after the close would leave it to read: the removal of
\* an open file is taken at its close.
RemoveFile(f) ==
    /\ Running
    /\ f \in DOMAIN logs
    /\ ~(pc = "read" /\ Head(todo) = f)
    /\ logs' = [g \in DOMAIN logs \ {f} |-> logs[g]]
    /\ mtime' = [g \in DOMAIN logs \ {f} |-> mtime[g]]
    /\ UNCHANGED <<now, nodes, connections, messages, pc, todo, pos, passes, appended, log_dir, simulator, starting>>

\* a node process writes its last line, and the simulator cleans up, only
\* while the monitor is in its first passes; after that the directory is left
\* alone
WriteThenStop(f, line) ==
    /\ passes < MaxWritePasses
    /\ appended = 0
    /\ AppendLine(f, line)

RemoveThenStop(f) ==
    /\ passes < MaxWritePasses
    /\ RemoveFile(f)

\* what the node processes still write
StaleWrites == {l_sent_B, l_received_A, l_other}

StaleDir ==
    [f \in {f_fa, f_fb} |-> IF f = f_fa THEN <<l_init_B>> ELSE <<l_peer_B>>]

InitStale ==
    /\ logs = StaleDir
    /\ mtime = [f \in DOMAIN logs |-> 0]
    /\ now = 0
    /\ InitMonitor

\* the steps of the monitor itself, without the quit key
PassStep(limit) ==
    \/ ListDir(limit)
    \/ NextFile
    \/ ReadLine
    \/ CloseFile
    \/ UpdateStatuses
    \/ Draw
    \/ Sleep

NextStale ==
    \/ ListDir(MaxStalePasses)
    \/ NextFile
    \/ ReadLine
    \/ CloseFile
    \/ UpdateStatuses
    \/ Draw
    \/ Quit
    \/ Sleep
    \/ \E f \in {f_fa, f_fb} : RemoveThenStop(f)
    \/ \E f \in {f_fa, f_fb}, line \in StaleWrites : WriteThenStop(f, line)

SpecStale == InitStale /\ [][NextStale]_vars

\* the same with one kind of last write, to the log of federation-a
NextQuiet ==
    \/ ListDir(MaxStalePasses)
    \/ NextFile
    \/ ReadLine
    \/ CloseFile
    \/ UpdateStatuses
    \/ Draw
    \/ Quit
    \/ Sleep
    \/ \E f \in {f_fa, f_fb} : RemoveThenStop(f)
    \/ WriteThenStop(f_fa, l_received_A)

\* monitor_loop is a sequential program: while it has not returned or raised,
\* its next statement is executed
SpecQuietLive ==
    InitStale /\ [][NextQuiet]_vars /\ WF_vars(PassStep(MaxStalePasses))

----------------------------------------------------------------------------
(* The program from main on, over logs that hold every kind of line: lines *)
(* that several expressions match, the same event with each kind of        *)
(* bracketed prefix, and tunnels of two types.                             *)

MaxEventLines == 2
MaxEventPasses == 2

l_tunnel_B_relay == LogLine(None, <<t_created, t_to>> \o addr_B \o <<t_using, "relay">>)
l_received_B == LogLine(None, <<t_received>> \o addr_B \o <<t_colon, "hello">>)

\* "[2024-01-01 12:00:00] Sending ...", "[12:00:00] Sending ..." (ValueError)
\* and "[ ] Sending ..." (IndexError)
l_sent_B_dated == LogLine(Some(<<"2024-01-01", "12:00:00">>), l_sent_B.body)
l_sent_B_clock == LogLine(Some(<<"12:00:00">>), l_sent_B.body)
l_sent_B_blank == LogLine(Some(<<>>), l_sent_B.body)

\* "Connected to peer: Node initialized with overlay address: addr-A"
l_peer_init == LogLine(None, <<t_connected, t_to, t_peer, t_colon, t_init, t_colon>> \o addr_A)
\* "Sending Created tunnel to addr-B using direct: hello"
l_sent_tunnel ==
    LogLine(None, <<t_sending, t_created, t_to>> \o addr_B \o <<t_using, "direct", t_colon, "hello">>)
\* "Sending msg to addr-B: Received message from addr-A: hello"
l_sent_received ==
    LogLine(None, <<t_sending, "msg", t_to>> \o addr_B
                  \o <<t_colon, t_received>> \o addr_A \o <<t_colon, "hello">>)

EventLines ==
    {l_init_A, l_peer_B, l_tunnel_B, l_tunnel_B_relay, l_sent_B, l_received_A, l_received_B,
     l_other, l_sent_B_dated, l_sent_B_clock, l_sent_B_blank,
     l_peer_init, l_sent_tunnel, l_sent_received}

\* B.log announces addr-B; A.log holds at most n of the lines
EventDirs(n) ==
    {[f \in {f_A, f_B} |-> IF f = f_A THEN lines ELSE <<l_init_B>>] :
        lines \in SeqsUpTo(EventLines, n)}

\* a variant of Main without the test of lines 334-336
Main_NoCheck ==
    /\ pc = "main"
    /\ pc' = "start"
    /\ UNCHANGED <<logs, mtime, now, nodes, connections, messages, todo, pos, passes, appended,
                   log_dir, simulator, starting>>

\* lines 325-341: main returns 1 when LOG_DIR does not exist, and otherwise
\* enters monitor_loop through the curses wrapper
Main ==
    /\ pc = "main"
    /\ pc' = IF ~log_dir THEN "failed" ELSE "start"
    /\ UNCHANGED <<logs, mtime, now, nodes, connections, messages, todo, pos, passes, appended,
                   log_dir, simulator, starting>>

InitEvents ==
    /\ log_dir \in BOOLEAN
    /\ logs \in IF log_dir THEN EventDirs(MaxEventLines) ELSE {EmptyMap}
    /\ mtime = [f \in DOMAIN logs |-> 0]
    /\ now = 0
    /\ nodes = <<>>
    /\ connections = EmptyMap
    /\ messages = <<>>
    /\ pc = "main"
    /\ todo = <<>>
    /\ pos = 0
    /\ passes = 0
    /\ appended = 0
    /\ simulator = EmptySimulator
    /\ starting = NotStarting

NextEvents ==
    \/ Main
    \/ ListDir(MaxEventPasses)
    \/ NextFile
    \/ ReadLine
    \/ CloseFile
    \/ UpdateStatuses
    \/ Draw
    \/ Quit
    \/ Sleep

SpecEvents == InitEvents /\ [][NextEvents]_vars

----------------------------------------------------------------------------
(* parse_logs as one function of the store, for a directory that does not  *)
(* change while it runs: dir and mt are the files and their modification   *)
(* times, order is what os.listdir returned, t is time.time().             *)

\* lines 109-118: the node of the file is created if new, and its last_seen set
OpenFile(st, filename, mt) ==
    LET node_id == parse_node_id_from_filename(filename)
        created == IF node_id \in NodeIds(st.nodes) THEN st.nodes
                   ELSE Append(st.nodes, Node(node_id, parse_federation_from_node_id(node_id)))
    IN  [st EXCEPT !.nodes = [created EXCEPT ![NodeIndex(created, node_id)].last_seen = mt]]

\* lines 121-200: `for line in f`
RECURSIVE ReadFile(_, _, _, _)
ReadFile(st, node_id, lines, t) ==
    IF lines = <<>> THEN st
    ELSE ReadFile(ApplyLine(st, node_id, Head(lines), t), node_id, Tail(lines), t)

\* lines 104-200: `for filename in os.listdir(LOG_DIR)`
RECURSIVE ReadFiles(_, _, _, _, _)
ReadFiles(st, order, dir, mt, t) ==
    IF order = <<>> THEN st
    ELSE LET filename == Head(order)
             next == IF ~EndsWith(filename, s_log) THEN st
                     ELSE ReadFile(OpenFile(st, filename, mt[filename]),
                                   parse_node_id_from_filename(filename), dir[filename], t)
         IN  ReadFiles(next, Tail(order), dir, mt, t)

\* lines 102-204
parse_logs(st, order, dir, mt, t) ==
    LET read == ReadFiles(st, order, dir, mt, t)
    IN  [read EXCEPT !.nodes = [i \in 1..Len(read.nodes) |-> update_status(read.nodes[i], t)]]

\* lines 32-34: the store of a monitor that has not run a pass
EmptyStore == [nodes |-> <<>>, connections |-> EmptyMap, messages |-> <<>>]

\* the stores `k` whole passes can leave, the last of them run at time t
RECURSIVE StoresAfter(_, _, _, _)
StoresAfter(k, dir, mt, t) ==
    IF k = 0 THEN {EmptyStore}
    ELSE {parse_logs(st, order, dir, mt, t) :
             st \in StoresAfter(k - 1, dir, mt, t - REFRESH_INTERVAL),
             order \in Perms(DOMAIN dir)}

----------------------------------------------------------------------------
(* Vocabulary of the properties *)

f_id(f) == parse_node_id_from_filename(f)
id_A == <<"A">>
id_B == <<"B">>

BetweenPasses == pc = "start"
PassDone == pc = "draw"

\* the step that applies line pos + 1 of the open file
Applying(kind) ==
    /\ pc = "read"
    /\ pos' = pos + 1
    /\ LineKind(logs[Head(todo)][pos + 1]) = kind

Reader == f_id(Head(todo))
CurrentLine == logs[Head(todo)][pos + 1]

CountKind(lines, kind) == Cardinality({i \in 1..Len(lines) : LineKind(lines[i]) = kind})

Advertisers(ns, addr) == {i \in 1..Len(ns) : ns[i].address = Some(addr)}

Known(id) == id \in NodeIds(nodes)

\* the address a peer-connected, tunnel-created or message-sent line names
EventAddress(line) ==
    CASE LineKind(line) = "peer" -> PEER_CONNECTED_RE(line.body)[1][1]
      [] LineKind(line) = "tunnel" -> TUNNEL_CREATED_RE(line.body)[1][1]
      [] LineKind(line) = "sent" -> MESSAGE_SENT_RE(line.body)[1][1]

----------------------------------------------------------------------------
(* C1: with nothing appended to any log, every node's messages_sent and    *)
(* messages_received equal the number of message-sent and message-received *)
(* lines of its log, and no connection counts more messages than its       *)
(* source's log holds, however many passes have run.                       *)
C1_CountedOnce ==
    (appended = 0 /\ BetweenPasses) =>
        /\ \A f \in DOMAIN logs : Known(f_id(f)) =>
              /\ NodeOf(nodes, f_id(f)).messages_sent = CountKind(logs[f], "sent")
              /\ NodeOf(nodes, f_id(f)).messages_received = CountKind(logs[f], "received")
        /\ \A k \in DOMAIN connections : \A f \in DOMAIN logs :
              f_id(f) = k[1] => connections[k].messages <= CountKind(logs[f], "sent")

----------------------------------------------------------------------------
(* C2: the message list never holds more than 100 records, and a step that *)
(* appends n records leaves the old list followed by them, having dropped  *)
(* records only from the front and only as many as exceed 100.             *)
C2_BoundedFifo ==
    [][LET n == IF Applying("sent")
                THEN Cardinality(Advertisers(nodes, EventAddress(CurrentLine)))
                ELSE 0
           total == Len(messages) + n
           kept == IF total > 100 THEN 100 - n ELSE Len(messages)
       IN  /\ Len(messages') <= 100
           /\ Len(messages') = kept + n
           /\ SubSeq(messages', 1, kept)
                 = SubSeq(messages, Len(messages) - kept + 1, Len(messages))
           /\ \A i \in (kept + 1)..Len(messages') :
                 /\ messages'[i].source = Reader
                 /\ messages'[i].content = MESSAGE_SENT_RE(CurrentLine.body)[1][2]]_vars

\* the list is full and the records of the first pass have been evicted
C2_Witness ==
    /\ Len(messages) = 100
    /\ messages[1].timestamp.value > 21
    /\ passes >= 26

----------------------------------------------------------------------------
(* C3: once a node's address is set, no step changes it.                   *)
C3_AddressSetOnce ==
    [][\A i \in 1..Len(nodes) :
          nodes[i].address # None => nodes'[i].address = nodes[i].address]_vars

----------------------------------------------------------------------------
(* C4: with A.log holding the node-initialized line for addr-A and the     *)
(* message-sent line to addr-B, and B.log the node-initialized line for    *)
(* addr-B, the first pass ends with messages_sent = 1 at A, a connection   *)
(* (A, B) counting one message, and exactly one message record, (A, B,     *)
(* hello).                                                                 *)
C4_Directory ==
    [f \in {f_A, f_B} |-> IF f = f_A THEN <<l_init_A, l_sent_B>> ELSE <<l_init_B>>]

C4_EndToEnd ==
    (logs = C4_Directory /\ appended = 0 /\ passes = 0 /\ PassDone) =>
        /\ NodeOf(nodes, id_A).messages_sent = 1
        /\ <<id_A, id_B>> \in DOMAIN connections
        /\ connections[<<id_A, id_B>>].messages = 1
        /\ Len(messages) = 1
        /\ messages[1].source = id_A
        /\ messages[1].dest = id_B
        /\ messages[1].content = <<"hello">>

----------------------------------------------------------------------------
(* C5: a step that applies a message-sent line adds one to the sender's    *)
(* messages_sent; when exactly one known node advertises the destination,  *)
(* the step leaves a connection (sender, dest) whose count is one more     *)
(* than before (one, if it did not exist), whose last_message is the       *)
(* current time, and it appends one record (sender, dest, content).        *)
C5_MessageSent ==
    [][Applying("sent") =>
         LET grp == MESSAGE_SENT_RE(CurrentLine.body)[1]
             owners == Advertisers(nodes, grp[1])
         IN  /\ NodeOf(nodes', Reader).messages_sent = NodeOf(nodes, Reader).messages_sent + 1
             /\ Cardinality(owners) = 1 =>
                   LET dest == nodes[CHOOSE i \in owners : TRUE].node_id
                       key == <<Reader, dest>>
                       before == IF key \in DOMAIN connections
                                 THEN connections[key].messages ELSE 0
                   IN  /\ key \in DOMAIN connections'
                       /\ connections'[key].messages = before + 1
                       /\ connections'[key].last_message = now
                       /\ messages' # <<>>
                       /\ messages'[Len(messages')].source = Reader
                       /\ messages'[Len(messages')].dest = dest
                       /\ messages'[Len(messages')].content = grp[2]
                       /\ Len(messages) < 100 => messages' = Append(messages, messages'[Len(messages')])]_vars

----------------------------------------------------------------------------
(* C6: when nothing has been appended and two passes are complete, every   *)
(* peer-connected line of a log whose address is the one announced by the  *)
(* first node-initialized line of some log has its connection (reader,     *)
(* owner).                                                                 *)
FirstInit(lines) == Min({j \in 1..Len(lines) : LineKind(lines[j]) = "init"})

C6_LaterPassResolves ==
    (appended = 0 /\ passes >= 2) =>
        \A fa \in DOMAIN logs, fb \in DOMAIN logs :
            \A i \in 1..Len(logs[fa]) :
                (/\ LineKind(logs[fa][i]) = "peer"
                 /\ CountKind(logs[fb], "init") > 0
                 /\ PEER_CONNECTED_RE(logs[fa][i].body)[1][1]
                       = NODE_INITIALIZED_RE(logs[fb][FirstInit(logs[fb])].body)[1][1])
                => <<f_id(fa), f_id(fb)>> \in DOMAIN connections

----------------------------------------------------------------------------
(* C7: a step that applies a line naming an address that zero or several   *)
(* known nodes advertise creates no connection and appends no message.     *)
C7_UniqueOwnerOnly ==
    [][(\E kind \in {"peer", "tunnel", "sent"} : Applying(kind)) =>
         (Cardinality(Advertisers(nodes, EventAddress(CurrentLine))) # 1 =>
             /\ DOMAIN connections' = DOMAIN connections
             /\ messages' = messages)]_vars

----------------------------------------------------------------------------
(* C8: the nodes named cross-federation-bridge-ab, -bc and -ac carry the   *)
(* composite federations a+b, b+c and a+c.                                 *)
s_bridge_id == s_cross_federation \o s_dash \o s_bridge

C8_BridgeComposite ==
    \A i \in 1..Len(nodes) :
        /\ nodes[i].node_id = s_bridge_id \o s_dash \o s_ab
              => nodes[i].federation = Some("federation-a+federation-b")
        /\ nodes[i].node_id = s_bridge_id \o s_dash \o s_bc
              => nodes[i].federation = Some("federation-b+federation-c")
        /\ nodes[i].node_id = s_bridge_id \o s_dash \o s_ac
              => nodes[i].federation = Some("federation-a+federation-c")

----------------------------------------------------------------------------
(* C9: a node named cross-federation-bridge, alone or with a last part     *)
(* other than ab, bc and ac, and a node whose name holds neither           *)
(* "federation-" nor "cross-federation", has no federation.                *)
C9_NoFederation ==
    \A i \in 1..Len(nodes) :
        LET id == nodes[i].node_id
            parts == Split(id, "-")
            unrecognized == /\ IsAt(id, s_bridge_id, 1)
                            /\ parts[Len(parts)] \notin {s_ab, s_bc, s_ac}
            unmarked == /\ ~Contains(id, s_federation \o s_dash)
                        /\ ~Contains(id, s_cross_federation)
        IN  (unrecognized \/ unmarked) => nodes[i].federation = None

----------------------------------------------------------------------------
(* C10: when a pass is done, every node's status follows the gap between   *)
(* the time of the pass and its last_seen: active up to 10 s, inactive     *)
(* above 10 s and up to 30 s, offline above 30 s.                          *)
C10_StatusByGap ==
    (pc \in {"draw", "sleep"}) =>
        \A i \in 1..Len(nodes) :
            LET gap == now - nodes[i].last_seen
            IN  /\ gap <= 10 => nodes[i].status = "active"
                /\ (10 < gap /\ gap <= 30) => nodes[i].status = "inactive"
                /\ gap > 30 => nodes[i].status = "offline"

\* one node exactly 10 s stale and active, another exactly 30 s stale and inactive
C10_Witness ==
    /\ pc = "draw"
    /\ \E i, j \in 1..Len(nodes) :
          /\ now - nodes[i].last_seen = 10
          /\ nodes[i].status = "active"
          /\ now - nodes[j].last_seen = 30
          /\ nodes[j].status = "inactive"

----------------------------------------------------------------------------
(* C11: when the pass comes to a listed log file that is no longer there,  *)
(* the monitor's step skips that name and goes on with the rest of the     *)
(* listing, leaving connections and messages as they are, so that the pass *)
(* completes and the loop continues.                                       *)
MonitorStep == <<pc, todo, pos, nodes, passes>>' # <<pc, todo, pos, nodes, passes>>

AtMissingSource ==
    /\ pc = "scan"
    /\ todo # <<>>
    /\ EndsWith(Head(todo), s_log)
    /\ Head(todo) \notin DOMAIN logs

C11_MissingSourceSkipped ==
    [][(AtMissingSource /\ MonitorStep) =>
          /\ pc' = "scan"
          /\ todo' = Tail(todo)
          /\ connections' = connections
          /\ messages' = messages]_vars

----------------------------------------------------------------------------
(* C12: whenever draw_network_status reads the store, in a directory that  *)
(* nobody writes to, the store is what a whole number of passes leaves:    *)
(* the passes completed so far and the one just run, each applied to all   *)
(* files and all lines with the statuses recomputed; no listed name is     *)
(* pending and no file is open.                                            *)
C12_RendererSeesWholePasses ==
    (pc = "draw") =>
        /\ todo = <<>>
        /\ pos = 0
        /\ Store \in StoresAfter(passes + 1, logs, mtime, now)

\* the renderer is about to read after the third pass, whose lines were also
\* applied by the earlier passes
C12_Witness ==
    /\ pc = "draw"
    /\ passes = 2
    /\ Len(messages) > 4
    /\ Len(nodes) = 2

----------------------------------------------------------------------------
(* C13: no step removes a node record or changes its identity; a node     *)
(* leaves the offline status only on a last_seen less than 30 s old, that  *)
(* is, when its log was written to again; and once the logs are no longer  *)
(* written to, or are gone, every node is eventually offline and stays     *)
(* offline, unless the monitor is quit or stops on an exception.           *)
Stopped == pc \in {"done", "crashed"}

Offline(id) == Known(id) /\ NodeOf(nodes, id).status = "offline"

C13_StaleGoesOffline ==
    /\ [][/\ Len(nodes') >= Len(nodes)
          /\ \A i \in 1..Len(nodes) :
                /\ nodes'[i].node_id = nodes[i].node_id
                /\ (nodes[i].status = "offline" /\ nodes'[i].status # "offline")
                      => now' - nodes'[i].last_seen <= OfflineAfter]_vars
    /\ <>[](Stopped \/ \A i \in 1..Len(nodes) : nodes[i].status = "offline")

\* the log of federation-b is gone and the log of federation-a was last written
\* after the monitor started; both nodes are still there and offline
C13_Witness ==
    /\ pc = "draw"
    /\ f_fb \notin DOMAIN logs
    /\ Offline(f_id(f_fb))
    /\ f_fa \in DOMAIN logs
    /\ mtime[f_fa] > 0
    /\ Offline(f_id(f_fa))

----------------------------------------------------------------------------
(* C14: a step that applies a message-received line adds one to the        *)
(* reader's messages_received and changes nothing else: not another field  *)
(* of that node, not another node, not the connections and not the message *)
(* list, whether or not a known node advertises the source address.        *)
C14_ReceivedFrame ==
    [][Applying("received") =>
          /\ nodes' = [nodes EXCEPT ![NodeIndex(nodes, Reader)].messages_received = @ + 1]
          /\ connections' = connections
          /\ messages' = messages]_vars

\* the line just applied is a message-received line whose source address a
\* known node advertises, read by a node that has a connection
C14_Witness ==
    /\ pc = "read"
    /\ pos >= 1
    /\ LineKind(logs[Head(todo)][pos]) = "received"
    /\ Advertisers(nodes, MESSAGE_RECEIVED_RE(logs[Head(todo)][pos].body)[1][1]) # {}
    /\ \E k \in DOMAIN connections : k[1] = Reader
    /\ NodeOf(nodes, Reader).messages_received >= 1

----------------------------------------------------------------------------
(* C15: a step that reads a line has the effect of one event only, that of *)
(* the first of node-initialized, peer-connected, tunnel-created,          *)
(* message-sent and message-received whose expression matches the line,    *)
(* and no effect at all when none matches.                                 *)
Priority == <<"init", "peer", "tunnel", "sent", "received">>

Matching(line) ==
    {k \in 1..5 :
        CASE k = 1 -> NODE_INITIALIZED_RE(line.body) # None
          [] k = 2 -> PEER_CONNECTED_RE(line.body) # None
          [] k = 3 -> TUNNEL_CREATED_RE(line.body) # None
          [] k = 4 -> MESSAGE_SENT_RE(line.body) # None
          [] k = 5 -> MESSAGE_RECEIVED_RE(line.body) # None}

EffectOf(k, st, id, line, t) ==
    CASE k = 1 -> OnNodeInitialized(st, id, NODE_INITIALIZED_RE(line.body)[1][1])
      [] k = 2 -> OnPeerConnected(st, id, PEER_CONNECTED_RE(line.body)[1][1])
      [] k = 3 -> OnTunnelCreated(st, id, TUNNEL_CREATED_RE(line.body)[1][1],
                                  TUNNEL_CREATED_RE(line.body)[1][2])
      [] k = 4 -> OnMessageSent(st, id, MESSAGE_SENT_RE(line.body)[1][1],
                                MESSAGE_SENT_RE(line.body)[1][2], ExtractTimestamp(line), t)
      [] k = 5 -> OnMessageReceived(st, id, MESSAGE_RECEIVED_RE(line.body)[1][1],
                                    MESSAGE_RECEIVED_RE(line.body)[1][2])

C15_FirstMatchOnly ==
    [][(pc = "read" /\ pos' = pos + 1) =>
          LET after == [nodes |-> nodes', connections |-> connections', messages |-> messages']
          IN  IF Matching(CurrentLine) = {} THEN after = Store
              ELSE after = EffectOf(Min(Matching(CurrentLine)), Store, Reader, CurrentLine, now)]_vars

\* the line just applied matches both the message-sent and the
\* message-received expression, and only messages_sent was counted
C15_Witness ==
    /\ pc = "read"
    /\ pos >= 1
    /\ Matching(logs[Head(todo)][pos]) = {4, 5}
    /\ NodeOf(nodes, Reader).messages_sent = 1
    /\ NodeOf(nodes, Reader).messages_received = 0

----------------------------------------------------------------------------
(* C16: a step that applies a tunnel-created line adds the destination     *)
(* address to the reader's tunnels; when exactly one known node advertises *)
(* the address, the step leaves a connection (reader, dest) whose          *)
(* tunnel_type is the type of the line, with the messages and last_message *)
(* it had before if it existed; and no other kind of step changes the      *)
(* tunnel_type of a connection, so the type is that of the latest          *)
(* tunnel-created line of the pair.                                        *)
C16_TunnelCreated ==
    [][/\ Applying("tunnel") =>
             LET grp == TUNNEL_CREATED_RE(CurrentLine.body)[1]
                 owners == Advertisers(nodes, grp[1])
             IN  /\ NodeOf(nodes', Reader).tunnels = NodeOf(nodes, Reader).tunnels \cup {grp[1]}
                 /\ messages' = messages
                 /\ Cardinality(owners) = 1 =>
                       LET key == <<Reader, nodes[CHOOSE i \in owners : TRUE].node_id>>
                           old == IF key \in DOMAIN connections THEN connections[key]
                                  ELSE Connection(key[1], key[2])
                       IN  /\ key \in DOMAIN connections'
                           /\ connections'[key] = [old EXCEPT !.tunnel_type = Some(grp[2])]
       /\ ~Applying("tunnel") =>
             \A k \in DOMAIN connections :
                 /\ k \in DOMAIN connections'
                 /\ connections'[k].tunnel_type = connections[k].tunnel_type]_vars

\* the line just applied is a tunnel-created line for a pair whose connection
\* had already counted a message, and the count is still there
C16_Witness ==
    /\ pc = "read"
    /\ pos >= 1
    /\ LineKind(logs[Head(todo)][pos]) = "tunnel"
    /\ <<id_A, id_B>> \in DOMAIN connections
    /\ connections[<<id_A, id_B>>].messages >= 1
    /\ connections[<<id_A, id_B>>].last_message > 0
    /\ connections[<<id_A, id_B>>].tunnel_type
          = Some(TUNNEL_CREATED_RE(logs[Head(todo)][pos].body)[1][2])

----------------------------------------------------------------------------
(* C17: a step that applies a peer-connected line leaves every existing    *)
(* connection exactly as it was; when the pair it names already has its    *)
(* connection the set of connections does not change at all, and when the  *)
(* address is already among the reader's peers the node records do not     *)
(* change either.                                                          *)
C17_PeerIdempotent ==
    [][Applying("peer") =>
          LET addr == PEER_CONNECTED_RE(CurrentLine.body)[1][1]
              keys == {<<Reader, nodes[i].node_id>> : i \in Advertisers(nodes, addr)}
          IN  /\ \A k \in DOMAIN connections :
                    k \in DOMAIN connections' /\ connections'[k] = connections[k]
              /\ keys \subseteq DOMAIN connections => connections' = connections
              /\ addr \in NodeOf(nodes, Reader).peers => nodes' = nodes
              /\ NodeOf(nodes', Reader).peers = NodeOf(nodes, Reader).peers \cup {addr}
              /\ messages' = messages]_vars

\* in a later pass, the peer-connected line was just applied again to a pair
\* whose connection had counted a message
C17_Witness ==
    /\ pc = "read"
    /\ pos >= 1
    /\ passes >= 1
    /\ LineKind(logs[Head(todo)][pos]) = "peer"
    /\ PEER_CONNECTED_RE(logs[Head(todo)][pos].body)[1][1] = addr_B
    /\ <<id_A, id_B>> \in DOMAIN connections
    /\ connections[<<id_A, id_B>>].messages >= 1

----------------------------------------------------------------------------
(* C18: no step, of the monitor or of the processes that write and delete  *)
(* the logs, lowers a node's messages_sent or messages_received, removes a *)
(* node record or removes a connection.                                    *)
C18_Monotone ==
    [][/\ Len(nodes') >= Len(nodes)
       /\ \A i \in 1..Len(nodes) :
             /\ nodes'[i].node_id = nodes[i].node_id
             /\ nodes'[i].messages_sent >= nodes[i].messages_sent
             /\ nodes'[i].messages_received >= nodes[i].messages_received
       /\ DOMAIN connections \subseteq DOMAIN connections']_vars

\* after two passes and a write: federation-a has counted messages, the
\* connection from federation-b is there, and the log of federation-b is gone
C18_Witness ==
    /\ passes >= 2
    /\ appended = 1
    /\ Known(f_id(f_fa))
    /\ NodeOf(nodes, f_id(f_fa)).messages_sent >= 2
    /\ <<f_id(f_fb), f_id(f_fa)>> \in DOMAIN connections
    /\ f_fb \notin DOMAIN logs

----------------------------------------------------------------------------
(* C19: a step that reads a line whose bracketed prefix does not start     *)
(* with a date has exactly the effect of the same line without the prefix, *)
(* and the message records it appends carry the time of the pass; a step   *)
(* that reads a line whose prefix starts with a date has that effect too,  *)
(* except that the records it appends carry the date.                      *)
Parseable(line) ==
    /\ line.ts # None
    /\ line.ts[1] # <<>>
    /\ line.ts[1][1] \in DateWords

Restamp(ms, from, stamp) ==
    [i \in 1..Len(ms) |-> IF i > from THEN [ms[i] EXCEPT !.timestamp = stamp] ELSE ms[i]]

C19_TimestampFallback ==
    [][(pc = "read" /\ pos' = pos + 1) =>
          LET line == CurrentLine
              after == [nodes |-> nodes', connections |-> connections', messages |-> messages']
              plain == ApplyLine(Store, Reader, [line EXCEPT !.ts = None], now)
          IN  /\ \A i \in (Len(messages) + 1)..Len(plain.messages) :
                    plain.messages[i].timestamp = [kind |-> "time", value |-> now]
              /\ IF Parseable(line)
                 THEN after = [plain EXCEPT !.messages =
                                  Restamp(@, Len(messages),
                                          [kind |-> "datetime", value |-> line.ts[1][1]])]
                 ELSE after = plain]_vars

\* the line just applied is a message-sent line with a prefix that is no
\* date; it was recorded with the time of the pass, after a record that
\* carries the date of its line
C19_Witness ==
    /\ pc = "read"
    /\ pos >= 1
    /\ LineKind(logs[Head(todo)][pos]) = "sent"
    /\ logs[Head(todo)][pos].ts # None
    /\ ~Parseable(logs[Head(todo)][pos])
    /\ Len(messages) >= 2
    /\ messages[Len(messages)].timestamp = [kind |-> "time", value |-> now]
    /\ messages[Len(messages) - 1].timestamp.kind = "datetime"

----------------------------------------------------------------------------
(* C20: when the log directory does not exist, the program is either still *)
(* at the start of main or has returned the failure code from it; no pass  *)
(* has started and nodes, connections and messages are empty.              *)
C20_MissingDirectoryIsFatal ==
    ~log_dir =>
        /\ pc \in {"main", "failed"}
        /\ passes = 0
        /\ todo = <<>>
        /\ nodes = <<>>
        /\ connections = EmptyMap
        /\ messages = <<>>

\* main has returned 1 for a directory that does not exist
C20_Witness ==
    /\ ~log_dir
    /\ pc = "failed"

----------------------------------------------------------------------------
(* C21: the step that opens a listed log file sets the last_seen of its    *)
(* node to the modification time of the file; no other step changes a      *)
(* last_seen, whatever the lines hold; so a node whose file is gone keeps  *)
(* the value it had, and at the end of a pass during which nobody wrote,   *)
(* every node whose file is there has last_seen equal to the file's        *)
(* modification time.                                                      *)
AtPresentSource ==
    /\ pc = "scan"
    /\ todo # <<>>
    /\ EndsWith(Head(todo), s_log)
    /\ Head(todo) \in DOMAIN logs

C21_LastSeenIsMtime ==
    /\ [][/\ (AtPresentSource /\ MonitorStep) =>
                NodeOf(nodes', f_id(Head(todo))).last_seen = mtime[Head(todo)]
          /\ \A i \in 1..Len(nodes) :
                nodes'[i].last_seen # nodes[i].last_seen =>
                    /\ AtPresentSource
                    /\ nodes[i].node_id = f_id(Head(todo))]_vars
    /\ []((pc = "draw" /\ passes >= MaxWritePasses) =>
              \A f \in DOMAIN logs :
                  Known(f_id(f)) /\ NodeOf(nodes, f_id(f)).last_seen = mtime[f])

\* at the end of a pass: the log of federation-a holds no event and was
\* written after the monitor started, and the log of federation-b is gone
C21_Witness ==
    /\ pc = "draw"
    /\ f_fa \in DOMAIN logs
    /\ \A i \in 1..Len(logs[f_fa]) : LineKind(logs[f_fa][i]) = "none"
    /\ mtime[f_fa] > 0
    /\ Known(f_id(f_fa))
    /\ NodeOf(nodes, f_id(f_fa)).last_seen = mtime[f_fa]
    /\ f_fb \notin DOMAIN logs
    /\ Known(f_id(f_fb))

----------------------------------------------------------------------------
(* C22: the lines of a log file are applied from the first to the last:    *)
(* each step of the reader takes line pos + 1 and puts the records of that *)
(* line behind every record already in messages; so during the first pass  *)
(* the records a file has produced are those of the message-sent lines     *)
(* read so far, in the order of the lines, and until the end of that pass  *)
(* the records of each file follow the order of its lines.                 *)

\* the records the message-sent lines among `lines` of node id produce, in order
RECURSIVE RecordsOf(_, _, _, _)
RecordsOf(ns, id, lines, t) ==
    IF lines = <<>> THEN <<>>
    ELSE LET line == Head(lines)
             owners == Owners(ns, MESSAGE_SENT_RE(line.body)[1][1])
         IN  (IF LineKind(line) = "sent"
              THEN [j \in 1..Len(owners) |->
                       Message(id, owners[j], MESSAGE_SENT_RE(line.body)[1][2],
                               MessageTime(ExtractTimestamp(line), t))]
              ELSE <<>>)
             \o RecordsOf(ns, id, Tail(lines), t)

\* the records of ms whose source is id, in the order of ms
RECURSIVE From(_, _)
From(ms, id) ==
    IF ms = <<>> THEN <<>>
    ELSE (IF Head(ms).source = id THEN <<Head(ms)>> ELSE <<>>) \o From(Tail(ms), id)

\* ms can be laid along lines without going back: every record is one of a
\* message-sent line at or after the line of the record before it
RECURSIVE Follows(_, _, _, _, _)
Follows(ms, ns, id, lines, t) ==
    IF ms = <<>> THEN TRUE
    ELSE IF lines = <<>> THEN FALSE
    ELSE IF Head(ms) \in Range(RecordsOf(ns, id, <<Head(lines)>>, t))
         THEN Follows(Tail(ms), ns, id, lines, t)
         ELSE Follows(ms, ns, id, Tail(lines), t)

C22_FileOrder ==
    /\ [][(pc = "read" /\ pc' = "read" /\ pos' # pos) =>
             /\ pos' = pos + 1
             /\ (Len(messages) + Len(RecordsOf(nodes, Reader, <<CurrentLine>>, now))
                    <= MaxMessages) =>
                  messages' = messages \o RecordsOf(nodes, Reader, <<CurrentLine>>, now)]_vars
    /\ []((passes = 0 /\ pc = "read") =>
             From(messages, Reader) =
                 RecordsOf(nodes, Reader, SubSeq(logs[Head(todo)], 1, pos), now))
    /\ [](passes = 0 =>
             \A f \in DOMAIN logs :
                 Follows(From(messages, f_id(f)), nodes, f_id(f), logs[f], now))

\* the first pass has read a dated message-sent line and then an undated one
\* from A.log, and messages holds their two records in that order
C22_Witness ==
    /\ passes = 0
    /\ pc = "draw"
    /\ f_A \in DOMAIN logs
    /\ logs[f_A] = <<l_sent_B_dated, l_sent_B>>
    /\ Len(messages) = 2
    /\ messages[1].timestamp.kind = "datetime"
    /\ messages[2].timestamp.kind = "time"

----------------------------------------------------------------------------
(* C23: in every state the two ends of every connection and of every       *)
(* message are identities of nodes, every connection is stored under the   *)
(* key made of its source and its dest, and every step that adds a         *)
(* connection or a message gives it the identity of the file being read    *)
(* as its source.                                                          *)
C23_RecordsNameNodes ==
    /\ [](/\ \A k \in DOMAIN connections :
                /\ connections[k].source \in NodeIds(nodes)
                /\ connections[k].dest \in NodeIds(nodes)
                /\ k = <<connections[k].source, connections[k].dest>>
          /\ \A i \in 1..Len(messages) :
                /\ messages[i].source \in NodeIds(nodes)
                /\ messages[i].dest \in NodeIds(nodes))
    /\ [][/\ \A k \in DOMAIN connections' \ DOMAIN connections :
                pc = "read" /\ connections'[k].source = Reader
          /\ Len(messages') > Len(messages) =>
                /\ pc = "read"
                /\ \A i \in Len(messages) + 1 .. Len(messages') :
                      messages'[i].source = Reader]_vars

\* A.log has produced a connection from A to B and a message from A to B
C23_Witness ==
    /\ <<id_A, id_B>> \in DOMAIN connections
    /\ connections[<<id_A, id_B>>].source = id_A
    /\ connections[<<id_A, id_B>>].dest = id_B
    /\ \E i \in 1..Len(messages) : messages[i].source = id_A /\ messages[i].dest = id_B

----------------------------------------------------------------------------
(* C24: in every state the messages counter of every connection is at most *)
(* the messages_sent counter of the node at its source end; and a step     *)
(* that applies a message-sent line adds one to the sender's counter and   *)
(* at most one to each connection.                                         *)
C24_CountAtMostSent ==
    /\ [](\A k \in DOMAIN connections :
              /\ k[1] \in NodeIds(nodes)
              /\ connections[k].messages <= NodeOf(nodes, k[1]).messages_sent)
    /\ [][Applying("sent") =>
             /\ NodeOf(nodes', Reader).messages_sent = NodeOf(nodes, Reader).messages_sent + 1
             /\ \A k \in DOMAIN connections :
                   connections'[k].messages \in
                       {connections[k].messages, connections[k].messages + 1}]_vars

\* the connection from A to B has counted a message, and A has sent more
\* than the connection counted: one line was applied before the connection existed
C24_Witness ==
    /\ <<id_A, id_B>> \in DOMAIN connections
    /\ connections[<<id_A, id_B>>].messages >= 1
    /\ NodeOf(nodes, id_A).messages_sent > connections[<<id_A, id_B>>].messages

----------------------------------------------------------------------------
(* simulate_scenarios.py: TestnetNode.start, step by step.  Times are in   *)
(* units of sleep_interval (0.5 s, exact in binary floating point, so the  *)
(* sum wait_time is exact too).                                            *)

MaxStartLines == 2

sleep_interval == 1
max_wait == 60

monitor_vars == <<nodes, connections, messages, pc, todo, pos, passes, appended, log_dir>>

s_bootstrap == <<"b","o","o","t","s","t","r","a","p">>
id_bootstrap_a == s_federation_a \o s_dash \o s_bootstrap

\* line 42: os.path.join(LOG_DIR, f"{self.node_id}.log"), as a name in LOG_DIR
log_path(node_id) == node_id \o s_log

\* line 82: NODE_INITIALIZED_RE.search(log_content), the leftmost match in the file
RECURSIVE SearchContent(_)
SearchContent(lines) ==
    IF lines = <<>> THEN None
    ELSE IF NODE_INITIALIZED_RE(Head(lines).body) # None
         THEN NODE_INITIALIZED_RE(Head(lines).body)
         ELSE SearchContent(Tail(lines))

\* lines 146-153 and 40-76: start_node of a known node; open(log_path, "w")
\* creates the log or empties it and the node process is launched
Start(node_id) ==
    /\ starting.pc = "idle"
    /\ node_id \in DOMAIN simulator.nodes
    /\ logs' = [g \in DOMAIN logs \cup {log_path(node_id)} |->
                   IF g = log_path(node_id) THEN <<>> ELSE logs[g]]
    /\ mtime' = [g \in DOMAIN logs \cup {log_path(node_id)} |->
                    IF g = log_path(node_id) THEN now ELSE mtime[g]]
    /\ simulator' = [simulator EXCEPT
                        !.nodes[node_id].log_file = Some(log_path(node_id)),
                        !.nodes[node_id].process = Some("running")]
    /\ starting' = [pc |-> "wait", node_id |-> node_id, wait_time |-> 0, result |-> None]
    /\ UNCHANGED <<now, monitor_vars>>

\* a variant of Poll whose sleep does not count
Poll_NoAdvance ==
    /\ starting.pc = "wait"
    /\ starting.wait_time < max_wait
    /\ LET f == log_path(starting.node_id)
           match == IF f \in DOMAIN logs THEN SearchContent(logs[f]) ELSE None
       IN  IF match # None
           THEN /\ simulator' = [simulator EXCEPT
                                   !.nodes[starting.node_id].address = Some(match[1][1])]
                /\ starting' = [starting EXCEPT !.pc = "returned", !.result = Some(TRUE)]
           ELSE /\ starting' = starting
                /\ UNCHANGED simulator
    /\ UNCHANGED <<logs, mtime, now, monitor_vars>>

\* lines 78-89: one iteration of the while loop
Poll ==
    /\ starting.pc = "wait"
    /\ starting.wait_time < max_wait
    /\ LET f == log_path(starting.node_id)
           match == IF f \in DOMAIN logs THEN SearchContent(logs[f]) ELSE None
       IN  IF match # None
           THEN /\ simulator' = [simulator EXCEPT
                                   !.nodes[starting.node_id].address = Some(match[1][1])]
                /\ starting' = [starting EXCEPT !.pc = "returned", !.result = Some(TRUE)]
           ELSE /\ starting' = [starting EXCEPT !.wait_time = @ + sleep_interval]
                /\ UNCHANGED simulator
    /\ UNCHANGED <<logs, mtime, now, monitor_vars>>

\* lines 78, 91-92: the loop condition fails
GiveUp ==
    /\ starting.pc = "wait"
    /\ starting.wait_time >= max_wait
    /\ starting' = [starting EXCEPT !.pc = "returned", !.result = Some(FALSE)]
    /\ UNCHANGED <<logs, mtime, now, simulator, monitor_vars>>

\* lines 63-70: the node process writes a line to its log
NodeWrites(line) ==
    /\ starting.pc \in {"wait", "returned"}
    /\ log_path(starting.node_id) \in DOMAIN logs
    /\ Len(logs[log_path(starting.node_id)]) < MaxStartLines
    /\ logs' = [logs EXCEPT ![log_path(starting.node_id)] = Append(@, line)]
    /\ mtime' = [mtime EXCEPT ![log_path(starting.node_id)] = now]
    /\ UNCHANGED <<now, simulator, starting, monitor_vars>>

StartLines == {l_init_A, l_init_B, l_other}

\* one node has been created; its log is absent or left by an earlier run
InitStart ==
    /\ \E port \in {BASE_PORT + 1000, BASE_PORT + 9999} :
          simulator = [nodes |-> [id \in {id_bootstrap_a} |->
                                     TestnetNode(id, s_federation_a, port)],
                       federations |-> [f \in {s_federation_a} |-> <<id_bootstrap_a>>]]
    /\ starting = NotStarting
    /\ logs \in {EmptyMap, [f \in {log_path(id_bootstrap_a)} |-> <<l_init_A>>]}
    /\ mtime = [f \in DOMAIN logs |-> 0]
    /\ now = 0
    /\ nodes = <<>>
    /\ connections = EmptyMap
    /\ messages = <<>>
    /\ pc = "start"
    /\ todo = <<>>
    /\ pos = 0
    /\ passes = 0
    /\ appended = 0
    /\ log_dir = TRUE

NextStart ==
    \/ \E node_id \in {id_bootstrap_a} : Start(node_id)
    \/ Poll
    \/ GiveUp
    \/ \E line \in StartLines : NodeWrites(line)

\* start is sequential code: once called, its loop keeps running
SpecStart == InitStart /\ [][NextStart]_vars /\ WF_vars(Poll) /\ WF_vars(GiveUp)

----------------------------------------------------------------------------
(* C25: the wait of TestnetNode.start ends.  A poll that finds a           *)
(* node-initialized line in the log returns True at once with the node's   *)
(* address set to the address of the first such line; a poll that finds    *)
(* none adds the interval to wait_time and leaves the address alone; once  *)
(* wait_time is at the limit there is no further poll and start returns    *)
(* False with the address still unset; wait_time never passes the limit;   *)
(* and every call that waits returns.                                      *)
Returned(result) == starting.pc = "returned" /\ starting.result = Some(result)

StartedNode == simulator.nodes[starting.node_id]

C25_StartWaitEnds ==
    /\ [][(starting.pc = "wait" /\ starting' # starting) =>
             LET lines == logs[log_path(starting.node_id)]
             IN  IF starting.wait_time >= max_wait
                 THEN /\ Returned(FALSE)'
                      /\ StartedNode'.address = StartedNode.address
                 ELSE IF SearchContent(lines) # None
                 THEN /\ Returned(TRUE)'
                      /\ StartedNode'.address = Some(SearchContent(lines)[1][1])
                 ELSE /\ starting'.pc = "wait"
                      /\ starting'.wait_time = starting.wait_time + sleep_interval
                      /\ StartedNode'.address = StartedNode.address]_vars
    /\ [](starting.pc # "idle" => starting.wait_time <= max_wait)
    /\ [](Returned(FALSE) =>
             /\ starting.wait_time = max_wait
             /\ StartedNode.address = None)
    /\ [](Returned(TRUE) => StartedNode.address # None)
    /\ (starting.pc = "wait") ~> (starting.pc = "returned")

\* start returned True after it had slept at least once: the log held a line
\* of another kind before the node-initialized line arrived
C25_Witness ==
    /\ Returned(TRUE)
    /\ starting.wait_time > 0
    /\ logs[log_path(starting.node_id)] = <<l_other, l_init_A>>
    /\ StartedNode.address = Some(addr_A)

----------------------------------------------------------------------------
(* simulate_scenarios.py: TestnetSimulator.create_node and                 *)
(* get_federation_nodes.  main builds one simulator and runs the chosen    *)
(* scenarios on it, each of which creates its nodes.                       *)

MaxCreates == 4

id_bootstrap_b == s_federation_b \o s_dash \o s_bootstrap
id_bridge == s_cross \o s_dash \o s_federation \o s_dash \o s_bridge

SimIds == {id_bootstrap_a, id_bootstrap_b, id_bridge}
SimFederations == {s_federation_a, s_federation_b}
SimPorts == {BASE_PORT + 1000, BASE_PORT + 9999}

\* the number of identities the lists of federations hold
Listed(federations) ==
    LET RECURSIVE Sum(_)
        Sum(S) == IF S = {} THEN 0
                  ELSE LET f == CHOOSE g \in S : TRUE
                       IN  Len(federations[f]) + Sum(S \ {f})
    IN  Sum(DOMAIN federations)

\* lines 126-137; None and "" are the federations that `if federation` rejects
create_node(node_id, federation, port) ==
    /\ starting.pc = "idle"
    /\ Listed(simulator.federations) < MaxCreates
    /\ simulator' =
          [nodes |-> [id \in DOMAIN simulator.nodes \cup {node_id} |->
                         IF id = node_id THEN TestnetNode(node_id, federation, port)
                         ELSE simulator.nodes[id]],
           federations |->
               IF federation # None
               THEN [f \in DOMAIN simulator.federations \cup {federation} |->
                        IF f = federation
                        THEN Append(IF f \in DOMAIN simulator.federations
                                    THEN simulator.federations[f] ELSE <<>>, node_id)
                        ELSE simulator.federations[f]]
               ELSE simulator.federations]
    /\ UNCHANGED <<logs, mtime, now, starting, monitor_vars>>

\* lines 139-144
get_federation_nodes(sim, federation) ==
    IF federation \notin DOMAIN sim.federations THEN <<>>
    ELSE [i \in 1..Len(sim.federations[federation]) |->
             sim.nodes[sim.federations[federation][i]]]

\* line 464: simulator = TestnetSimulator()
InitSimulator ==
    /\ simulator = EmptySimulator
    /\ starting = NotStarting
    /\ logs = EmptyMap
    /\ mtime = EmptyMap
    /\ now = 0
    /\ nodes = <<>>
    /\ connections = EmptyMap
    /\ messages = <<>>
    /\ pc = "start"
    /\ todo = <<>>
    /\ pos = 0
    /\ passes = 0
    /\ appended = 0
    /\ log_dir = TRUE

NextSimulator ==
    \E node_id \in SimIds, federation \in SimFederations \cup {None}, port \in SimPorts :
        create_node(node_id, federation, port)

SpecSimulator == InitSimulator /\ [][NextSimulator]_vars

----------------------------------------------------------------------------
(* C26: in every state, for every federation f, get_federation_nodes(f)    *)
(* holds no node twice, holds every node of the simulator whose federation *)
(* is f, and holds only nodes whose federation is f.                       *)
C26_EachNodeOnce ==
    \A f \in SimFederations :
        LET r == get_federation_nodes(simulator, f)
        IN  /\ \A i, j \in 1..Len(r) : r[i].node_id = r[j].node_id => i = j
            /\ \A id \in DOMAIN simulator.nodes :
                  simulator.nodes[id].federation = f =>
                      \E i \in 1..Len(r) : r[i].node_id = id
            /\ \A i \in 1..Len(r) : r[i].federation = f

====
